---- MODULE Spec2Model ----
(***************************************************************************)
(* A model of scep/builders.py: the PKIMessageBuilder that assembles SCEP  *)
(* pkiMessage structures (signed-data around enveloped-data) and the       *)
(* degenerate certificate-only signed-data.                                *)
(*                                                                         *)
(* Byte strings are sequences of naturals below 256.  ASN.1 structures are *)
(* records; dump() is a tag-length-value encoding of them into byte        *)
(* strings, and load is its inverse parser.  SHA-256 and RSA are ideal     *)
(* (collision free, invertible only with the matching key); 3DES-CBC is a  *)
(* byte-wise invertible block cipher chained over 8-byte blocks.           *)
(***************************************************************************)
EXTENDS Integers, Sequences, FiniteSets, TLC

(***************************************************************************)
(* Bounds of the model.                                                    *)
(***************************************************************************)
MaxAttrs == 2      \* attributes appended by configuration calls, per builder
MaxName == 5       \* issuers, serial numbers and keys of the certificates encoded
MaxQueue == 2      \* payloads queued by encrypt, per builder
MaxSigners == 2    \* entries of the signer list, per builder
MaxFinalize == 1   \* messages returned by finalize, per builder
MaxReuse == 2      \* messages returned by finalize on a builder that is reused
NumSeeds == 2      \* distinct outcomes of one os.urandom / uuid4 draw

(***************************************************************************)
(* Program constants.                                                      *)
(***************************************************************************)
KeyLen == 24       \* os.urandom(24)
IVLen == 8         \* os.urandom(8)
NonceLen == 16     \* os.urandom(16)
BlockSize == 8     \* TripleDES.block_size, in bytes

None == [none |-> TRUE]

Builders == {"A", "B"}

(***************************************************************************)
(* Byte strings.                                                           *)
(***************************************************************************)
RECURSIVE Concat(_)
Concat(ss) == IF ss = <<>> THEN <<>> ELSE Head(ss) \o Concat(Tail(ss))

Min(a, b) == IF a < b THEN a ELSE b

\* a <= b in the order of encoded octets
LexLeq(a, b) ==
    LET differ == {i \in 1..Min(Len(a), Len(b)) : a[i] # b[i]}
    IN  IF differ = {} THEN Len(a) <= Len(b)
        ELSE LET first == CHOOSE i \in differ : \A j \in differ : i <= j
             IN  a[first] < b[first]

RECURSIVE Insert(_, _)
Insert(x, sorted) ==
    IF sorted = <<>> THEN <<x>>
    ELSE IF LexLeq(x, Head(sorted)) THEN <<x>> \o sorted
    ELSE <<Head(sorted)>> \o Insert(x, Tail(sorted))

RECURSIVE Sorted(_)
Sorted(ss) == IF ss = <<>> THEN <<>> ELSE Insert(Head(ss), Sorted(Tail(ss)))

Repeat(byte, n) == [i \in 1..n |-> byte]

\* the outcomes of one draw of n random bytes
urandom(n) == {Repeat(s, n) : s \in 1..NumSeeds}

\* the outcomes of str(uuid4()), as the characters of a printable string
uuid4 == {<<117, 48 + s>> : s \in 1..NumSeeds}

(***************************************************************************)
(* Cryptographic primitives of the cryptography package, idealised.        *)
(***************************************************************************)
\* hashes.Hash(hashes.SHA256()): an injective digest
SHA256(data) == <<32>> \o data

\* public_key().encrypt(m, PKCS1v15()): only the matching private key opens it
RSAEncrypt(public_key, m) == <<public_key>> \o m

RSADecrypt(private_key, c) ==
    IF c # <<>> /\ Head(c) = private_key
    THEN [ok |-> TRUE, data |-> Tail(c)]
    ELSE [ok |-> FALSE, data |-> <<>>]

\* pk.signer(PKCS1v15(), SHA256()): update(data), finalize()
RSASign(private_key, data) == <<private_key>> \o SHA256(data)

RSAVerify(public_key, data, signature) == signature = <<public_key>> \o SHA256(data)

\* variant: a padder that adds nothing to data that already fills its blocks
PKCS7Pad_OnlyPartialBlocks(data) ==
    LET n == (BlockSize - (Len(data) % BlockSize)) % BlockSize
    IN  data \o Repeat(n, n)

\* PKCS7(block_size).padder(): always pads, by 1..BlockSize bytes
PKCS7Pad(data) ==
    LET n == BlockSize - (Len(data) % BlockSize)
    IN  data \o Repeat(n, n)

PKCS7Unpad(padded) ==
    LET n == IF padded = <<>> THEN 0 ELSE padded[Len(padded)]
        good == /\ padded # <<>>
                /\ Len(padded) % BlockSize = 0
                /\ n >= 1 /\ n <= BlockSize
                /\ \A i \in (Len(padded) - n + 1)..Len(padded) : padded[i] = n
    IN  IF good
        THEN [ok |-> TRUE, data |-> SubSeq(padded, 1, Len(padded) - n)]
        ELSE [ok |-> FALSE, data |-> <<>>]

\* one block of the three-key cipher: encrypt k1, decrypt k2, encrypt k3
TripleDESBlock(key, block) ==
    [i \in 1..BlockSize |->
        (block[i] + key[i] + (256 - key[BlockSize + i]) + key[2 * BlockSize + i]) % 256]

TripleDESBlockInv(key, block) ==
    [i \in 1..BlockSize |->
        (block[i] + (256 - key[i]) + key[BlockSize + i]
            + (256 - key[2 * BlockSize + i])) % 256]

RECURSIVE CBCEncrypt(_, _, _)
\* Cipher(des_key, modes.CBC(iv)).encryptor().update(padded)
CBCEncrypt(key, prev, padded) ==
    IF padded = <<>> THEN <<>>
    ELSE LET block == SubSeq(padded, 1, BlockSize)
             mixed == [i \in 1..BlockSize |-> (block[i] + prev[i]) % 256]
             c == TripleDESBlock(key, mixed)
         IN  c \o CBCEncrypt(key, c, SubSeq(padded, BlockSize + 1, Len(padded)))

RECURSIVE CBCDecrypt(_, _, _)
CBCDecrypt(key, prev, ciphertext) ==
    IF Len(ciphertext) < BlockSize THEN <<>>
    ELSE LET c == SubSeq(ciphertext, 1, BlockSize)
             mixed == TripleDESBlockInv(key, c)
             block == [i \in 1..BlockSize |-> (mixed[i] + 256 - prev[i]) % 256]
         IN  block \o CBCDecrypt(key, c, SubSeq(ciphertext, BlockSize + 1, Len(ciphertext)))

(***************************************************************************)
(* DER: tag, length, contents.                                             *)
(***************************************************************************)
Tlv(tag, contents) == <<tag, Len(contents)>> \o contents

\* the first element of an encoding and what follows it
ReadTlv(bytes) ==
    [tag |-> bytes[1],
     contents |-> SubSeq(bytes, 3, 2 + bytes[2]),
     rest |-> SubSeq(bytes, 3 + bytes[2], Len(bytes))]

RECURSIVE ReadAll(_)
\* the elements of a constructed encoding's contents
ReadAll(bytes) ==
    IF Len(bytes) < 2 THEN <<>>
    ELSE LET e == ReadTlv(bytes)
         IN  <<[tag |-> e.tag, contents |-> e.contents]>> \o ReadAll(e.rest)

\* object identifiers of the algorithms and content types used
OidNames == {"data", "signed_data", "enveloped_data", "rsa", "tripledes_3key",
             "sha256", "sha256_rsa"}

Oid(name) ==
    CASE name = "data" -> <<7, 1>>
      [] name = "signed_data" -> <<7, 2>>
      [] name = "enveloped_data" -> <<7, 3>>
      [] name = "rsa" -> <<1, 1>>
      [] name = "sha256_rsa" -> <<1, 11>>
      [] name = "tripledes_3key" -> <<3, 7>>
      [] name = "sha256" -> <<2, 1>>

OidName(oid) == CHOOSE n \in OidNames : Oid(n) = oid

\* SCEPCMSAttributeType: the attribute types and their identifiers
AttributeTypes == {"message_type", "pki_status", "fail_info", "sender_nonce",
                   "recipient_nonce", "transaction_id", "content_type",
                   "message_digest"}

SCEPCMSAttributeType(type) ==
    CASE type = "content_type" -> <<9, 3>>
      [] type = "message_digest" -> <<9, 4>>
      [] type = "message_type" -> <<19, 2>>
      [] type = "pki_status" -> <<19, 3>>
      [] type = "fail_info" -> <<19, 4>>
      [] type = "sender_nonce" -> <<19, 5>>
      [] type = "recipient_nonce" -> <<19, 6>>
      [] type = "transaction_id" -> <<19, 7>>

(***************************************************************************)
(* Certificates.  An x509.Certificate is [issuer, serial_number,           *)
(* public_key]; the private key of public key k is k.                      *)
(***************************************************************************)
Certificates == {[issuer |-> 1, serial_number |-> 1, public_key |-> 1],
                 [issuer |-> 1, serial_number |-> 2, public_key |-> 2]}

PrivateKeys == {c.public_key : c \in Certificates}

\* certificate.public_bytes(serialization.Encoding.DER)
public_bytes(certificate) ==
    Tlv(48, Tlv(2, <<certificate.serial_number>>)
            \o Tlv(48, <<certificate.issuer>>)
            \o Tlv(3, <<certificate.public_key>>))

\* oscrypto.keys.parse_certificate(der): the asn1crypto Certificate
parse_certificate(der) ==
    LET parts == ReadAll(ReadTlv(der).contents)
    IN  [serial_number |-> parts[1].contents[1],
         issuer |-> parts[2].contents[1],
         public_key |-> parts[3].contents[1]]

\* asn1crypto Certificate.dump()
DumpCertificate(asn1cert) == public_bytes(asn1cert)

IssuerAndSerialNumber(asn1cert) ==
    [issuer |-> asn1cert.issuer, serial_number |-> asn1cert.serial_number]

DumpIssuerAndSerialNumber(ias) ==
    Tlv(48, Tlv(48, <<ias.issuer>>) \o Tlv(2, <<ias.serial_number>>))

LoadIssuerAndSerialNumber(bytes) ==
    LET parts == ReadAll(ReadTlv(bytes).contents)
    IN  [issuer |-> parts[1].contents[1], serial_number |-> parts[2].contents[1]]

(***************************************************************************)
(* scep.enums: an enum member is [name, value].                            *)
(***************************************************************************)
MessageType == {[name |-> "PKCSReq", value |-> <<49, 57>>]}

PKIStatus == {[name |-> "SUCCESS", value |-> <<48>>],
              [name |-> "FAILURE", value |-> <<50>>]}

PKIStatus_FAILURE == [name |-> "FAILURE", value |-> <<50>>]

FailInfo == {[name |-> "BadAlg", value |-> <<48>>]}

(***************************************************************************)
(* ASN.1 values and the CMS attribute set.                                 *)
(***************************************************************************)
PrintableString(chars) == [asn1 |-> "PrintableString", contents |-> chars]

OctetString(bytes) == [asn1 |-> "OctetString", contents |-> bytes]

ContentType(name) == [asn1 |-> "ObjectIdentifier", contents |-> Oid(name)]

CMSAttribute(type, values) == [type |-> type, values |-> values]

UniversalTag(asn1) ==
    CASE asn1 = "PrintableString" -> 19
      [] asn1 = "OctetString" -> 4
      [] asn1 = "ObjectIdentifier" -> 6

DumpValue(v) == Tlv(UniversalTag(v.asn1), v.contents)

\* CMSAttribute.dump(): SEQUENCE { type, SET OF value }
DumpCMSAttribute(attr) ==
    Tlv(48, Tlv(6, SCEPCMSAttributeType(attr.type))
            \o Tlv(49, Concat([i \in DOMAIN attr.values |-> DumpValue(attr.values[i])])))

\* variant: the members encoded in the order of the list
DumpCMSAttributes_InsertionOrder(attrs) ==
    Tlv(49, Concat([i \in DOMAIN attrs |-> DumpCMSAttribute(attrs[i])]))

\* CMSAttributes.dump(): a SET OF is encoded with its members' encodings sorted
DumpCMSAttributes(attrs) ==
    Tlv(49, Concat(Sorted([i \in DOMAIN attrs |-> DumpCMSAttribute(attrs[i])])))

(***************************************************************************)
(* The enveloped-data structure, its encoding and its decoding.            *)
(***************************************************************************)
DumpRecipientInfo(ri) ==
    Tlv(48, Tlv(2, <<ri.version>>)
            \o DumpIssuerAndSerialNumber(ri.rid)
            \o Tlv(48, Tlv(6, Oid(ri.key_encryption_algorithm)))
            \o Tlv(4, ri.encrypted_key))

LoadRecipientInfo(bytes) ==
    LET parts == ReadAll(ReadTlv(bytes).contents)
    IN  [version |-> parts[1].contents[1],
         rid |-> LoadIssuerAndSerialNumber(Tlv(parts[2].tag, parts[2].contents)),
         key_encryption_algorithm |-> OidName(ReadTlv(parts[3].contents).contents),
         encrypted_key |-> parts[4].contents]

DumpEncryptedContentInfo(eci) ==
    Tlv(48, Tlv(6, Oid(eci.content_type))
            \o Tlv(48, Tlv(6, Oid(eci.content_encryption_algorithm.algorithm))
                       \o Tlv(4, eci.content_encryption_algorithm.parameters))
            \o Tlv(128, eci.encrypted_content))

LoadEncryptedContentInfo(bytes) ==
    LET parts == ReadAll(ReadTlv(bytes).contents)
        alg == ReadAll(parts[2].contents)
    IN  [content_type |-> OidName(parts[1].contents),
         content_encryption_algorithm |->
             [algorithm |-> OidName(alg[1].contents), parameters |-> alg[2].contents],
         encrypted_content |-> parts[3].contents]

\* EnvelopedData.dump()
DumpEnvelopedData(ed) ==
    Tlv(48, Tlv(2, <<ed.version>>)
            \o Tlv(49, Concat([i \in DOMAIN ed.recipient_infos |->
                                  DumpRecipientInfo(ed.recipient_infos[i])]))
            \o DumpEncryptedContentInfo(ed.encrypted_content_info))

\* EnvelopedData.load(bytes)
LoadEnvelopedData(bytes) ==
    LET parts == ReadAll(ReadTlv(bytes).contents)
        ris == ReadAll(parts[2].contents)
    IN  [version |-> parts[1].contents[1],
         recipient_infos |->
             [i \in DOMAIN ris |-> LoadRecipientInfo(Tlv(ris[i].tag, ris[i].contents))],
         encrypted_content_info |->
             LoadEncryptedContentInfo(Tlv(parts[3].tag, parts[3].contents))]

\* what the holder of private_key recovers from an encoded enveloped-data
DecryptEnvelopedData(bytes, private_key) ==
    LET ed == LoadEnvelopedData(bytes)
        eci == ed.encrypted_content_info
        key == RSADecrypt(private_key, ed.recipient_infos[1].encrypted_key)
        padded == CBCDecrypt(key.data, eci.content_encryption_algorithm.parameters,
                             eci.encrypted_content)
        plain == PKCS7Unpad(padded)
    IN  IF key.ok /\ Len(key.data) = KeyLen THEN plain
        ELSE [ok |-> FALSE, data |-> <<>>]

\* CertificateSet([CertificateChoices('certificate', asn1cert), ...])
CertificateSet(asn1certs) == [certificate |-> asn1certs]

\* variant: a degenerate message that names a digest algorithm
create_degenerate_certificate_WithDigest(certificate) ==
    LET asn1cert == parse_certificate(public_bytes(certificate))
        sd == [version |-> 1,
               digest_algorithms |-> <<"sha256">>,
               encap_content_info |-> [content_type |-> "data", content |-> None],
               certificates |-> CertificateSet(<<asn1cert>>),
               signer_infos |-> <<>>]
    IN  [content_type |-> "signed_data", content |-> sd]

(***************************************************************************)
(* create_degenerate_certificate.  A SignedData built without              *)
(* digest_algorithms and signer_infos carries them empty; a ContentInfo    *)
(* built without content carries none.                                     *)
(***************************************************************************)
create_degenerate_certificate(certificate) ==
    LET der_bytes == public_bytes(certificate)
        asn1cert == parse_certificate(der_bytes)
        empty == [content_type |-> "data", content |-> None]
        sd == [version |-> 1,
               digest_algorithms |-> <<>>,
               encap_content_info |-> empty,
               certificates |-> CertificateSet(<<asn1cert>>),
               signer_infos |-> <<>>]
    IN  [content_type |-> "signed_data", content |-> sd]

(***************************************************************************)
(* PKIMessageBuilder.  A method maps the object to the outcome of the      *)
(* call: the object as the call leaves it, the exception raised ("" when   *)
(* the call returns) and the value returned.                               *)
(***************************************************************************)
Self == [self |-> TRUE]

Return(self, value) == [self |-> self, raised |-> "", value |-> value]

Raise(self, exception) == [self |-> self, raised |-> exception, value |-> None]

\* variant: the first signer stays the primary one
add_signer_KeepFirst(self, certificate, signer_key) ==
    LET asn1cert == parse_certificate(public_bytes(certificate))
        sid == [issuer_and_serial_number |-> IssuerAndSerialNumber(asn1cert)]
        entry == [sid |-> sid, certificate |-> certificate]
    IN  IF self._primary_signer = None
        THEN Return([self EXCEPT !._signers = Append(@, entry),
                                 !._primary_signer = entry,
                                 !._primary_signer_key = signer_key],
                    [self |-> TRUE])
        ELSE Return([self EXCEPT !._signers = Append(@, entry)], [self |-> TRUE])

add_signer(self, certificate, signer_key) ==
    LET derp == public_bytes(certificate)
        asn1cert == parse_certificate(derp)
        ias == IssuerAndSerialNumber(asn1cert)
        sid == [issuer_and_serial_number |-> ias]
        entry == [sid |-> sid, certificate |-> certificate]
    IN  Return([self EXCEPT !._signers = Append(@, entry),
                            !._primary_signer = entry,
                            !._primary_signer_key = signer_key],
               Self)

\* __init__
PKIMessageBuilder(signer_cert, signer_key) ==
    add_signer([_signers |-> <<>>,
                _primary_signer |-> None,
                _primary_signer_key |-> None,
                _cms_attributes |-> <<>>,
                _certificates |-> None,
                _encrypt |-> <<>>,
                _recipient |-> None],
               signer_cert, signer_key).self

\* variant: the certificates added to those already set
certificates_Accumulate(self, certs) ==
    LET certset == [i \in DOMAIN certs |-> parse_certificate(public_bytes(certs[i]))]
        held == IF self._certificates = None THEN <<>> ELSE self._certificates.certificate
    IN  Return([self EXCEPT !._certificates = CertificateSet(held \o certset)],
               [self |-> TRUE])

certificates(self, certs) ==
    LET certset == [i \in DOMAIN certs |-> parse_certificate(public_bytes(certs[i]))]
    IN  Return([self EXCEPT !._certificates = CertificateSet(certset)], Self)

message_type(self, mt) ==
    LET attr == CMSAttribute("message_type", <<PrintableString(mt.value)>>)
    IN  Return([self EXCEPT !._cms_attributes = Append(@, attr)], Self)

add_recipient(self, certificate) ==
    Return([self EXCEPT !._recipient = certificate], Self)

encrypt(self, content) ==
    Return([self EXCEPT !._encrypt = Append(@, content)], Self)

\* variant: fail_info appended whenever failure info is given
pki_status_FailInfoWhenGiven(self, status, failure_info) ==
    LET attr == CMSAttribute("pki_status", <<PrintableString(status.value)>>)
        self1 == [self EXCEPT !._cms_attributes = Append(@, attr)]
    IN  IF failure_info = None
        THEN IF status = PKIStatus_FAILURE THEN Raise(self1, "ValueError")
             ELSE Return(self1, [self |-> TRUE])
        ELSE Return([self1 EXCEPT !._cms_attributes =
                         Append(@, CMSAttribute("fail_info",
                                       <<PrintableString(failure_info.value)>>))],
                    [self |-> TRUE])

pki_status(self, status, failure_info) ==
    LET attr == CMSAttribute("pki_status", <<PrintableString(status.value)>>)
        self1 == [self EXCEPT !._cms_attributes = Append(@, attr)]
    IN  IF status = PKIStatus_FAILURE
        THEN IF failure_info = None
             THEN Raise(self1, "ValueError")
             ELSE LET fail_attr == CMSAttribute("fail_info",
                                       <<PrintableString(failure_info.value)>>)
                  IN  Return([self1 EXCEPT !._cms_attributes = Append(@, fail_attr)],
                             Self)
        ELSE Return(self1, Self)

\* an argument left out of the call
Omitted == [omitted |-> TRUE]

\* variant: a nonce is drawn whatever the argument
sender_nonce_AlwaysDrawn(self, nonce, random) ==
    Return([self EXCEPT !._cms_attributes =
                Append(@, CMSAttribute("sender_nonce", <<OctetString(random)>>))],
           [self |-> TRUE])

\* random: what os.urandom(16) yields if it is called; nonce defaults to None
sender_nonce(self, nonce, random) ==
    LET value == IF nonce = None \/ nonce = Omitted THEN OctetString(random)
                 ELSE OctetString(nonce.bytes)
        attr == CMSAttribute("sender_nonce", <<value>>)
    IN  Return([self EXCEPT !._cms_attributes = Append(@, attr)], Self)

\* nonce has no default; a nonce that is not bytes, None included, is
\* appended as it is
recipient_nonce(self, nonce) ==
    IF nonce = Omitted THEN Raise(self, "TypeError")
    ELSE LET value == IF nonce = None THEN None ELSE OctetString(nonce.bytes)
             attr == CMSAttribute("recipient_nonce", <<value>>)
         IN  Return([self EXCEPT !._cms_attributes = Append(@, attr)], Self)

\* random: what str(uuid4()) yields if it is called; trans_id defaults to None
transaction_id(self, trans_id, random) ==
    LET value == IF trans_id = None \/ trans_id = Omitted THEN PrintableString(random)
                 ELSE PrintableString(trans_id.str)
        attr == CMSAttribute("transaction_id", <<value>>)
    IN  Return([self EXCEPT !._cms_attributes = Append(@, attr)], Self)

_build_cmsattributes(self) == self._cms_attributes

_build_recipient_info(symmetric_key, recipient) ==
    LET encrypted_symkey == RSAEncrypt(recipient.public_key, symmetric_key)
        asn1cert == parse_certificate(public_bytes(recipient))
        ias == IssuerAndSerialNumber(asn1cert)
    IN  [version |-> 0,
         rid |-> ias,
         key_encryption_algorithm |-> "rsa",
         encrypted_key |-> encrypted_symkey]

\* variant: one key for every call
_encrypt_data_FixedKey(data, random_key, random_iv) ==
    LET des_key == Repeat(1, KeyLen)
    IN  [des_key |-> des_key, iv |-> random_iv,
         ciphertext |-> CBCEncrypt(des_key, random_iv, PKCS7Pad(data))]

\* random_key, random_iv: what os.urandom(24) and os.urandom(8) yield
_encrypt_data(data, random_key, random_iv) ==
    LET des_key == random_key
        iv == random_iv
        padded == PKCS7Pad(data)
        ciphertext == CBCEncrypt(des_key, iv, padded)
    IN  [des_key |-> des_key, iv |-> iv, ciphertext |-> ciphertext]

_build_pkcs_pki_envelope(ciphertext, iv, recipient) ==
    LET eci == [content_type |-> "data",
                content_encryption_algorithm |->
                    [algorithm |-> "tripledes_3key", parameters |-> iv],
                encrypted_content |-> ciphertext]
    IN  [version |-> 1,
         recipient_infos |-> <<recipient>>,
         encrypted_content_info |-> eci]

\* the digest over (encap_content || signed_attrs) and its DigestInfo
SecondaryDigest(encap_content, signed_attrs) ==
    LET d == SHA256(encap_content \o DumpCMSAttributes(signed_attrs))
    IN  [digest_algorithm |-> "sha256", digest |-> d]

\* variant: the signer fed the encapsulated content before the attributes
SignatureInput_ContentAndAttrs(encap_content, signed_attrs) ==
    encap_content \o DumpCMSAttributes(signed_attrs)

\* what the signer is fed
SignatureInput(encap_content, signed_attrs) ==
    DumpCMSAttributes(signed_attrs)

\* variant: only content_type appended
MandatoryAttributes_ContentTypeOnly(content_digest) ==
    <<CMSAttribute("content_type", <<ContentType("data")>>)>>

\* the two attributes _build_signerinfo appends, in the order it appends them
MandatoryAttributes(content_digest) ==
    <<CMSAttribute("content_type", <<ContentType("data")>>),
      CMSAttribute("message_digest", <<OctetString(content_digest)>>)>>

_build_signerinfo(self, encap_content, content_digest) ==
    LET self2 == [self EXCEPT !._cms_attributes = @ \o MandatoryAttributes(content_digest)]
        signed_attrs == _build_cmsattributes(self2)
        di == SecondaryDigest(encap_content, signed_attrs)
        pk == self2._primary_signer_key
        signature == RSASign(pk, SignatureInput(encap_content, signed_attrs))
        si == [version |-> 1,
               sid |-> self2._primary_signer.sid,
               digest_algorithm |-> "sha256",
               signed_attrs |-> signed_attrs,
               signature_algorithm |-> "sha256_rsa",
               signature |-> OctetString(signature)]
    IN  Return(self2, si)

\* variant: a signer-info for every entry of the signer list
_build_signerinfos_EverySigner(self, content, content_digest) ==
    LET r == _build_signerinfo(self, content, content_digest)
    IN  Return(r.self, [i \in DOMAIN self._signers |-> r.value])

_build_signerinfos(self, content, content_digest) ==
    LET r == _build_signerinfo(self, content, content_digest)
    IN  Return(r.self, <<r.value>>)

\* the digest finalize passes on as content_digest
ContentDigest(pkcs_pki_envelope) == SHA256(DumpEnvelopedData(pkcs_pki_envelope))

\* variant: the item queued last
QueuedPayload_Last(self) == self._encrypt[Len(self._encrypt)]

\* the queued item finalize encrypts
QueuedPayload(self) == self._encrypt[1]

\* finalize once its payload and its recipient are there
AssembleMessage(self, random_key, random_iv) ==
    LET enc == _encrypt_data(QueuedPayload(self), random_key, random_iv)
        recipient_info == _build_recipient_info(enc.des_key, self._recipient)
        pkcs_pki_envelope ==
            _build_pkcs_pki_envelope(enc.ciphertext, enc.iv, recipient_info)
        encap_info == [content_type |-> "data",
                       content |-> DumpEnvelopedData(pkcs_pki_envelope)]
        d == ContentDigest(pkcs_pki_envelope)
        signer_infos == _build_signerinfos(self, DumpEnvelopedData(pkcs_pki_envelope), d)
        sd == [version |-> 1,
               certificates |-> signer_infos.self._certificates,
               signer_infos |-> signer_infos.value,
               digest_algorithms |-> <<"sha256">>,
               encap_content_info |-> encap_info]
        ci == [content_type |-> "signed_data", content |-> sd]
    IN  Return(signer_infos.self, ci)

\* variant: the recipient looked at before the payload queue
finalize_RecipientFirst(self, random_key, random_iv) ==
    IF self._recipient = None THEN Raise(self, "AttributeError")
    ELSE IF self._encrypt = <<>> THEN Raise(self, "IndexError")
    ELSE AssembleMessage(self, random_key, random_iv)

\* variant: content_type appended before the recipient is looked at
finalize_AppendBeforeRecipient(self, random_key, random_iv) ==
    IF self._encrypt = <<>> THEN Raise(self, "IndexError")
    ELSE IF self._recipient = None
         THEN Raise([self EXCEPT !._cms_attributes =
                         Append(@, CMSAttribute("content_type", <<ContentType("data")>>))],
                    "AttributeError")
    ELSE AssembleMessage(self, random_key, random_iv)

\* self._encrypt[0] of an empty list raises IndexError; with no recipient,
\* recipient.public_key() raises AttributeError, after the payload is encrypted
finalize(self, random_key, random_iv) ==
    IF self._encrypt = <<>> THEN Raise(self, "IndexError")
    ELSE IF self._recipient = None THEN Raise(self, "AttributeError")
    ELSE AssembleMessage(self, random_key, random_iv)

(***************************************************************************)
(* The state: the builder objects, the last call made on each (the method, *)
(* its arguments, the exception raised and the value returned), how many   *)
(* messages finalize has returned on each, the last result of              *)
(* create_degenerate_certificate with its argument, and the position and   *)
(* the local variables of a finalize that is running statement by          *)
(* statement.                                                              *)
(***************************************************************************)
VARIABLES builder, returned, finalized, degenerate, running

vars == <<builder, returned, finalized, degenerate, running>>

\* no finalize is running on a builder
Idle == [pc |-> "idle"]

\* a call without arguments
NoArgs == [none |-> TRUE]

\* inputs of the calls
ExplicitNonces == {[bytes |-> Repeat(0, NonceLen)]}

ExplicitTransIds == {[str |-> <<97, 98, 99>>]}

Payloads == {<<80>>, Repeat(81, BlockSize)}

OnePayload == {<<80>>}

OneCertificate == {[issuer |-> 1, serial_number |-> 2, public_key |-> 2]}

CertificateLists ==
    {<<>>} \cup {<<c>> : c \in Certificates}
           \cup {<<c, d>> : c \in Certificates, d \in Certificates}

SignerInputs == {<<c, c.public_key>> : c \in Certificates}

OneSigner == {<<c, c.public_key>> : c \in OneCertificate}

OneCertificateList == {<<c>> : c \in OneCertificate}

\* a value left to the setter
Unset == {None, Omitted}

\* a certificate with any key: add_signer does not compare them
SignerPairs == {<<c, k>> : c \in Certificates, k \in PrivateKeys}

\* one outcome of os.urandom(n)
OneDraw(n) == {Repeat(1, n)}

\* attributes appended by configuration calls
Configured(b) == Len(builder[b]._cms_attributes) - 2 * finalized[b]

Init ==
    /\ \E s \in SignerInputs :
           builder = [b \in Builders |-> PKIMessageBuilder(s[1], s[2])]
    /\ returned = [b \in Builders |->
                       [call |-> "__init__", args |-> NoArgs, raised |-> "",
                        value |-> None]]
    /\ finalized = [b \in Builders |-> 0]
    /\ degenerate = None
    /\ running = [b \in Builders |-> Idle]

\* variant: one attribute list held by every builder
Store_SharedAttributes(builders, b, self) ==
    [x \in DOMAIN builders |->
        IF x = b THEN self
        ELSE [builders[x] EXCEPT !._cms_attributes = self._cms_attributes]]

\* the builders once the call on builder b has left its object as self:
\* every field of an object is assigned in its own __init__, so that no
\* two objects hold the same list
Store(builders, b, self) == [builders EXCEPT ![b] = self]

\* the call of method `name` on builder b with arguments args and outcome r
Call(b, name, args, r) ==
    /\ running[b] = Idle
    /\ builder' = Store(builder, b, r.self)
    /\ returned' = [returned EXCEPT ![b] =
                       [call |-> name, args |-> args, raised |-> r.raised,
                        value |-> r.value]]
    /\ finalized' = [finalized EXCEPT ![b] =
                        IF name = "finalize" /\ r.raised = "" THEN @ + 1 ELSE @]
    /\ UNCHANGED <<degenerate, running>>

AddSigner(b, signers) ==
    /\ Len(builder[b]._signers) < MaxSigners
    /\ \E s \in signers :
           Call(b, "add_signer", [certificate |-> s[1], signer_key |-> s[2]],
                add_signer(builder[b], s[1], s[2]))

SetCertificates(b, lists) ==
    \E certs \in lists :
        Call(b, "certificates", [certificates |-> certs],
             certificates(builder[b], certs))

SetMessageType(b, limit) ==
    /\ Configured(b) < limit
    /\ \E mt \in MessageType :
           Call(b, "message_type", [message_type |-> mt],
                message_type(builder[b], mt))

AddRecipient(b, recipients) ==
    \E c \in recipients :
        Call(b, "add_recipient", [certificate |-> c],
             add_recipient(builder[b], c))

Encrypt(b, payloads) ==
    /\ Len(builder[b]._encrypt) < MaxQueue
    /\ \E content \in payloads :
           Call(b, "encrypt", [content |-> content],
                encrypt(builder[b], content))

SetPkiStatus(b, limit) ==
    /\ Configured(b) < limit
    /\ \E status \in PKIStatus, failure_info \in FailInfo \cup {None} :
           Call(b, "pki_status", [status |-> status, failure_info |-> failure_info],
                pki_status(builder[b], status, failure_info))

SetSenderNonce(b, nonces, limit) ==
    /\ Configured(b) < limit
    /\ \E nonce \in nonces, random \in urandom(NonceLen) :
           Call(b, "sender_nonce", [nonce |-> nonce],
                sender_nonce(builder[b], nonce, random))

SetRecipientNonce(b, nonces, limit) ==
    /\ Configured(b) < limit
    /\ \E nonce \in nonces :
           Call(b, "recipient_nonce", [nonce |-> nonce],
                recipient_nonce(builder[b], nonce))

SetTransactionId(b, trans_ids, limit) ==
    /\ Configured(b) < limit
    /\ \E trans_id \in trans_ids, random \in uuid4 :
           Call(b, "transaction_id", [trans_id |-> trans_id],
                transaction_id(builder[b], trans_id, random))

Finalize(b, limit, keys, ivs) ==
    /\ finalized[b] < limit
    /\ \E random_key \in keys, random_iv \in ivs :
           Call(b, "finalize", NoArgs, finalize(builder[b], random_key, random_iv))

(***************************************************************************)
(* finalize run statement by statement.  A position is named after what    *)
(* has been done when it is reached; the local variables computed so far   *)
(* are kept with it.                                                       *)
(***************************************************************************)
\* variant: the signer run before the two attributes are appended
FinalizeOrder_SignBeforeAppend ==
    <<"idle", "encrypted", "enveloped", "digested", "signed", "appended">>

\* the positions of finalize and of the _build_signerinfo it calls, in the
\* order of their statements
FinalizeOrder ==
    <<"idle", "encrypted", "enveloped", "digested", "appended", "signed">>

\* the position from which the statements that reach `position` run
Before(position) ==
    FinalizeOrder[(CHOOSE i \in DOMAIN FinalizeOrder : FinalizeOrder[i] = position) - 1]

\* the running finalize on builder b ends with outcome r
Finish(b, r) ==
    /\ builder' = Store(builder, b, r.self)
    /\ returned' = [returned EXCEPT ![b] =
                       [call |-> "finalize", args |-> NoArgs, raised |-> r.raised,
                        value |-> r.value]]
    /\ finalized' = [finalized EXCEPT ![b] = IF r.raised = "" THEN @ + 1 ELSE @]
    /\ running' = [running EXCEPT ![b] = Idle]
    /\ UNCHANGED degenerate

\* the running finalize on builder b goes on with local variables frame
Proceed(b, frame) ==
    /\ running' = [running EXCEPT ![b] = frame]
    /\ UNCHANGED <<builder, returned, finalized, degenerate>>

\* des_key, iv, encrypted_content = self._encrypt_data(self._encrypt[0])
StepEncrypt(b, limit, keys, ivs) ==
    /\ running[b].pc = Before("encrypted")
    /\ finalized[b] < limit
    /\ \E random_key \in keys, random_iv \in ivs :
           IF builder[b]._encrypt = <<>>
           THEN Finish(b, Raise(builder[b], "IndexError"))
           ELSE Proceed(b, [pc |-> "encrypted",
                            enc |-> _encrypt_data(QueuedPayload(builder[b]),
                                                  random_key, random_iv)])

\* recipient_info, pkcs_pki_envelope, encap_info
StepEnvelope(b) ==
    /\ running[b].pc = Before("enveloped")
    /\ IF builder[b]._recipient = None
       THEN Finish(b, Raise(builder[b], "AttributeError"))
       ELSE LET f == running[b]
                recipient_info == _build_recipient_info(f.enc.des_key, builder[b]._recipient)
                pkcs_pki_envelope ==
                    _build_pkcs_pki_envelope(f.enc.ciphertext, f.enc.iv, recipient_info)
                encap_info == [content_type |-> "data",
                               content |-> DumpEnvelopedData(pkcs_pki_envelope)]
            IN  Proceed(b, [pc |-> "enveloped", enc |-> f.enc,
                            pkcs_pki_envelope |-> pkcs_pki_envelope,
                            encap_info |-> encap_info])

\* d: the digest of pkcs_pki_envelope.dump()
StepDigest(b) ==
    /\ running[b].pc = Before("digested")
    /\ Proceed(b, [pc |-> "digested", d |-> ContentDigest(running[b].pkcs_pki_envelope)]
                  @@ running[b])

\* _build_signerinfo: content_type and message_digest appended
StepAppend(b) ==
    /\ running[b].pc = Before("appended")
    /\ builder' = Store(builder, b,
                        [builder[b] EXCEPT
                            !._cms_attributes = @ \o MandatoryAttributes(running[b].d)])
    /\ running' = [running EXCEPT ![b] = [pc |-> "appended"] @@ running[b]]
    /\ UNCHANGED <<returned, finalized, degenerate>>

\* _build_signerinfo: signed_attrs, di, pk, signature
StepSign(b) ==
    /\ running[b].pc = Before("signed")
    /\ LET signed_attrs == _build_cmsattributes(builder[b])
           pk == builder[b]._primary_signer_key
           signature ==
               RSASign(pk, SignatureInput(running[b].encap_info.content, signed_attrs))
       IN  Proceed(b, [pc |-> "signed", signed_attrs |-> signed_attrs,
                       signature |-> signature] @@ running[b])

\* si, signer_infos, sd, ci and the return
StepAssemble(b) ==
    /\ running[b].pc = FinalizeOrder[Len(FinalizeOrder)]
    /\ LET f == running[b]
           si == [version |-> 1,
                  sid |-> builder[b]._primary_signer.sid,
                  digest_algorithm |-> "sha256",
                  signed_attrs |-> f.signed_attrs,
                  signature_algorithm |-> "sha256_rsa",
                  signature |-> OctetString(f.signature)]
           sd == [version |-> 1,
                  certificates |-> builder[b]._certificates,
                  signer_infos |-> <<si>>,
                  digest_algorithms |-> <<"sha256">>,
                  encap_content_info |-> f.encap_info]
           ci == [content_type |-> "signed_data", content |-> sd]
       IN  Finish(b, Return(builder[b], ci))

CreateDegenerate(certs) ==
    /\ \E c \in certs :
           degenerate' = [certificate |-> c, value |-> create_degenerate_certificate(c)]
    /\ UNCHANGED <<builder, returned, finalized, running>>

(***************************************************************************)
(* One builder: every attribute setter with explicit values, one payload,  *)
(* one recipient, one outcome of the random draws, and calls made after    *)
(* finalize has returned.                                                  *)
(***************************************************************************)
Next ==
    \/ SetMessageType("A", MaxAttrs)
    \/ SetPkiStatus("A", MaxAttrs)
    \/ SetSenderNonce("A", ExplicitNonces, MaxAttrs)
    \/ SetRecipientNonce("A", ExplicitNonces, MaxAttrs)
    \/ SetTransactionId("A", ExplicitTransIds, MaxAttrs)
    \/ Encrypt("A", OnePayload)
    \/ AddRecipient("A", OneCertificate)
    \/ Finalize("A", MaxFinalize, OneDraw(KeyLen), OneDraw(IVLen))

Spec == Init /\ [][Next]_vars

(***************************************************************************)
(* One builder that is finalized again after finalize has returned.        *)
(***************************************************************************)
NextReuse ==
    \/ SetMessageType("A", MaxAttrs)
    \/ Encrypt("A", OnePayload)
    \/ AddRecipient("A", OneCertificate)
    \/ Finalize("A", MaxReuse, OneDraw(KeyLen), urandom(IVLen))

SpecReuse == Init /\ [][NextReuse]_vars

(***************************************************************************)
(* One builder, every payload, every recipient and every random draw.      *)
(***************************************************************************)
NextEnvelope ==
    \/ Encrypt("A", Payloads)
    \/ AddRecipient("A", Certificates)
    \/ Finalize("A", MaxFinalize, urandom(KeyLen), urandom(IVLen))

SpecEnvelope == Init /\ [][NextEnvelope]_vars

(***************************************************************************)
(* Two builders side by side, each configured, with one payload and one    *)
(* recipient, and then finalized, with no call made on a builder after its *)
(* finalize returned.                                                      *)
(***************************************************************************)
NextPair ==
    \E b \in Builders :
        \/ finalized[b] = 0 /\ SetMessageType(b, MaxAttrs)
        \/ finalized[b] = 0 /\ SetTransactionId(b, ExplicitTransIds, MaxAttrs)
        \/ finalized[b] = 0 /\ builder[b]._encrypt = <<>> /\ Encrypt(b, OnePayload)
        \/ finalized[b] = 0 /\ builder[b]._recipient = None /\ AddRecipient(b, OneCertificate)
        \/ finalized[b] = 0 /\ Finalize(b, MaxFinalize, OneDraw(KeyLen), urandom(IVLen))

SpecPair == Init /\ [][NextPair]_vars

(***************************************************************************)
(* One builder whose finalize runs statement by statement.                 *)
(***************************************************************************)
NextSteps ==
    \/ SetMessageType("A", MaxAttrs)
    \/ Encrypt("A", OnePayload)
    \/ AddRecipient("A", OneCertificate)
    \/ StepEncrypt("A", MaxFinalize, OneDraw(KeyLen), urandom(IVLen))
    \/ StepEnvelope("A")
    \/ StepDigest("A")
    \/ StepAppend("A")
    \/ StepSign("A")
    \/ StepAssemble("A")

SpecSteps == Init /\ [][NextSteps]_vars

(***************************************************************************)
(* One builder to which signers are added.                                 *)
(***************************************************************************)
NextSigners ==
    \/ AddSigner("A", SignerPairs)
    \/ Encrypt("A", OnePayload)
    \/ AddRecipient("A", OneCertificate)
    \/ Finalize("A", MaxFinalize, OneDraw(KeyLen), OneDraw(IVLen))

SpecSigners == Init /\ [][NextSigners]_vars

(***************************************************************************)
(* One builder whose nonces and transaction id are given or left to the    *)
(* setter, the recipient nonce always given.                               *)
(***************************************************************************)
NextValues ==
    \/ SetSenderNonce("A", ExplicitNonces \cup Unset, MaxAttrs)
    \/ SetRecipientNonce("A", ExplicitNonces, MaxAttrs)
    \/ SetTransactionId("A", ExplicitTransIds \cup Unset, MaxAttrs)
    \/ Encrypt("A", OnePayload)
    \/ AddRecipient("A", OneCertificate)
    \/ Finalize("A", MaxFinalize, OneDraw(KeyLen), OneDraw(IVLen))

SpecValues == Init /\ [][NextValues]_vars

(***************************************************************************)
(* One builder on which the three setters are called with their value      *)
(* given, None or left out.                                                *)
(***************************************************************************)
NextOmitted ==
    \/ SetSenderNonce("A", ExplicitNonces \cup Unset, MaxAttrs)
    \/ SetRecipientNonce("A", ExplicitNonces \cup Unset, MaxAttrs)
    \/ SetTransactionId("A", ExplicitTransIds \cup Unset, MaxAttrs)

SpecOmitted == Init /\ [][NextOmitted]_vars

(***************************************************************************)
(* Two builders with the same payload and recipient, each finalized once   *)
(* with its own random draws.                                              *)
(***************************************************************************)
NextDraws ==
    \E b \in Builders :
        \/ builder[b]._encrypt = <<>> /\ Encrypt(b, OnePayload)
        \/ builder[b]._recipient = None /\ AddRecipient(b, OneCertificate)
        \/ finalized[b] = 0 /\ Finalize(b, MaxFinalize, urandom(KeyLen), urandom(IVLen))

SpecDraws == Init /\ [][NextDraws]_vars

(***************************************************************************)
(* Two builders whose calls interleave in any order, calls made after      *)
(* finalize has returned included; each field but the signer list is set   *)
(* once.                                                                   *)
(***************************************************************************)
NextInterleaved ==
    \E b \in Builders :
        \/ builder[b]._cms_attributes = <<>> /\ SetMessageType(b, MaxAttrs)
        \/ AddSigner(b, OneSigner)
        \/ builder[b]._certificates = None /\ SetCertificates(b, OneCertificateList)
        \/ builder[b]._encrypt = <<>> /\ Encrypt(b, OnePayload)
        \/ builder[b]._recipient = None /\ AddRecipient(b, OneCertificate)
        \/ Finalize(b, MaxFinalize, OneDraw(KeyLen), OneDraw(IVLen))

SpecInterleaved == Init /\ [][NextInterleaved]_vars

(***************************************************************************)
(* One builder whose certificate set and recipient are set again and       *)
(* again.                                                                  *)
(***************************************************************************)
NextCertificates ==
    \/ SetCertificates("A", CertificateLists)
    \/ AddRecipient("A", Certificates)
    \/ SetMessageType("A", MaxAttrs)
    \/ Encrypt("A", OnePayload)
    \/ Finalize("A", MaxFinalize, OneDraw(KeyLen), OneDraw(IVLen))

SpecCertificates == Init /\ [][NextCertificates]_vars

(***************************************************************************)
(* create_degenerate_certificate applied to any certificate.               *)
(***************************************************************************)
AnyCertificate == [issuer : 1..MaxName, serial_number : 1..MaxName, public_key : 1..MaxName]

NextDegenerate == CreateDegenerate(AnyCertificate)

SpecDegenerate == Init /\ [][NextDegenerate]_vars

(***************************************************************************)
(* What the caller holds after the last call on builder b.                 *)
(***************************************************************************)
\* finalize returned a message
IsMessage(b) == returned[b].call = "finalize" /\ returned[b].raised = ""

SignedData(b) == returned[b].value.content

SignerInfo(b) == SignedData(b).signer_infos[1]

SignedAttrs(b) == SignerInfo(b).signed_attrs

EncapContent(b) == SignedData(b).encap_content_info.content

AttrsOfType(attrs, type) == {i \in DOMAIN attrs : attrs[i].type = type}

\* the private key that belongs to a certificate
PrivateKeyOf(certificate) == certificate.public_key

(***************************************************************************)
(* C1: pki_status(FAILURE) without failure info raises the validation      *)
(* error and leaves the attribute list as it was before the call.          *)
(* The code appends the pki_status attribute before it checks.             *)
(***************************************************************************)
C1_FailureLeavesAttributes ==
    [][\A b \in Builders :
          (returned'[b].call = "pki_status" /\ returned'[b].raised = "ValueError")
              => builder'[b]._cms_attributes = builder[b]._cms_attributes]_vars

(***************************************************************************)
(* C2: once finalize has returned a message on a builder, a further call   *)
(* on it changes nothing, returns no message and ends in an error.         *)
(* The code keeps no record of having finalized and accepts every call.    *)
(***************************************************************************)
C2_FinalizedIsTerminal ==
    [][\A b \in Builders :
          finalized[b] > 0 =>
              /\ builder'[b] = builder[b]
              /\ finalized'[b] = finalized[b]
              /\ returned'[b] # returned[b] => returned'[b].raised # ""]_vars

(***************************************************************************)
(* C3: the signed attributes of every message finalize returns hold a      *)
(* content_type attribute of value data and a message_digest attribute,    *)
(* whatever was configured.                                                *)
(***************************************************************************)
C3_AttributeCompleteness ==
    \A b \in Builders :
        IsMessage(b) =>
            /\ \E i \in DOMAIN SignedAttrs(b) :
                   SignedAttrs(b)[i] = CMSAttribute("content_type", <<ContentType("data")>>)
            /\ AttrsOfType(SignedAttrs(b), "message_digest") # {}

\* a message built with no configured attribute at all
C3_Witness ==
    /\ IsMessage("A")
    /\ finalized["A"] = 1
    /\ Len(SignedAttrs("A")) = 2

C5_MessageDigestOfEnvelope ==
    \A b \in Builders :
        IsMessage(b) =>
            \A i \in AttrsOfType(SignedAttrs(b), "message_digest") :
                SignedAttrs(b)[i].values = <<OctetString(SHA256(EncapContent(b)))>>

C7_RoundTrip ==
    \A b \in Builders :
        IsMessage(b) =>
            LET R == builder[b]._recipient
                P == builder[b]._encrypt[1]
                ed == LoadEnvelopedData(EncapContent(b))
                key == RSADecrypt(PrivateKeyOf(R), ed.recipient_infos[1].encrypted_key)
            IN  /\ Len(ed.recipient_infos) = 1
                /\ ed.recipient_infos[1].rid =
                       [issuer |-> R.issuer, serial_number |-> R.serial_number]
                /\ key.ok /\ Len(key.data) = KeyLen
                /\ Len(ed.encrypted_content_info.content_encryption_algorithm.parameters)
                       = IVLen
                /\ DecryptEnvelopedData(EncapContent(b), PrivateKeyOf(R))
                       = [ok |-> TRUE, data |-> P]
                /\ \A other \in Certificates \ {R} :
                       ~DecryptEnvelopedData(EncapContent(b), PrivateKeyOf(other)).ok

\* a message for a recipient other than the signer, its payload a whole block
C7_Witness ==
    /\ IsMessage("A")
    /\ builder["A"]._recipient # builder["A"]._primary_signer.certificate
    /\ Len(builder["A"]._encrypt[1]) = BlockSize

(***************************************************************************)
(* C8: with several payloads queued, the plaintext of the enveloped-data   *)
(* is the first one queued, and the message is the one the same builder    *)
(* returns, on the same random draws, with only that first payload queued. *)
(***************************************************************************)
C8_FirstPayloadOnly ==
    \A b \in Builders :
        (IsMessage(b) /\ Len(builder[b]._encrypt) > 1) =>
            LET R == builder[b]._recipient
                ed == LoadEnvelopedData(EncapContent(b))
                key == RSADecrypt(PrivateKeyOf(R), ed.recipient_infos[1].encrypted_key).data
                iv == ed.encrypted_content_info.content_encryption_algorithm.parameters
                attrs == builder[b]._cms_attributes
                before == [builder[b] EXCEPT
                              !._cms_attributes = SubSeq(attrs, 1, Len(attrs) - 2),
                              !._encrypt = <<Head(@)>>]
            IN  /\ DecryptEnvelopedData(EncapContent(b), PrivateKeyOf(R)).data
                       = Head(builder[b]._encrypt)
                /\ returned[b].value = finalize(before, key, iv).value

\* a message from a builder with two different payloads queued
C8_Witness ==
    /\ IsMessage("A")
    /\ Len(builder["A"]._encrypt) = 2
    /\ builder["A"]._encrypt[1] # builder["A"]._encrypt[2]

(***************************************************************************)
(* C9: create_degenerate_certificate returns a content-info of type        *)
(* signed-data with no signer-info, no digest algorithm, the given         *)
(* certificate as its one certificate, and an encapsulated content-info of *)
(* type data without content.                                              *)
(***************************************************************************)
C9_DegenerateShape ==
    degenerate # None =>
        LET ci == degenerate.value
            sd == ci.content
        IN  /\ ci.content_type = "signed_data"
            /\ sd.version = 1
            /\ sd.signer_infos = <<>>
            /\ sd.digest_algorithms = <<>>
            /\ Len(sd.certificates.certificate) = 1
            /\ DumpCertificate(sd.certificates.certificate[1])
                   = public_bytes(degenerate.certificate)
            /\ sd.encap_content_info = [content_type |-> "data", content |-> None]

\* a degenerate message for a certificate whose issuer, serial and key all differ
C9_Witness ==
    /\ degenerate # None
    /\ degenerate.certificate = [issuer |-> 1, serial_number |-> 2, public_key |-> 3]

(***************************************************************************)
(* C10: two builders with the same signing key whose finalized attribute   *)
(* lists hold the same attributes, in whatever order, carry the same       *)
(* signature, made over the same encoding of the attribute set.            *)
(***************************************************************************)
Count(x, seq) == Cardinality({i \in DOMAIN seq : seq[i] = x})

SameAttributes(s, t) ==
    /\ Len(s) = Len(t)
    /\ \A i \in DOMAIN s : Count(s[i], s) = Count(s[i], t)

C10_OrderIndependent ==
    \A a, b \in Builders :
        (/\ IsMessage(a) /\ IsMessage(b)
         /\ builder[a]._primary_signer_key = builder[b]._primary_signer_key
         /\ SameAttributes(SignedAttrs(a), SignedAttrs(b)))
            => /\ SignerInfo(a).signature = SignerInfo(b).signature
               /\ RSAVerify(builder[a]._primary_signer_key,
                            DumpCMSAttributes(SignedAttrs(b)),
                            SignerInfo(a).signature.contents)

\* both builders finalized, the same attributes appended in different orders
C10_Witness ==
    /\ IsMessage("A") /\ IsMessage("B")
    /\ SameAttributes(SignedAttrs("A"), SignedAttrs("B"))
    /\ SignedAttrs("A") # SignedAttrs("B")

(***************************************************************************)
(* C11: while finalize runs, a digest exists only once the envelope of the *)
(* same call exists and is the digest of that envelope; a signature exists *)
(* only once content_type and message_digest, holding that digest, have    *)
(* been appended, and is made over the attributes including them; and the  *)
(* message returned at the end is the one finalize returns.                *)
(***************************************************************************)
C11_FinalizeOrder ==
    \A b \in Builders :
        LET f == running[b]
            attrs == builder[b]._cms_attributes
            n == Len(attrs)
        IN  /\ "pkcs_pki_envelope" \in DOMAIN f =>
                   /\ "enc" \in DOMAIN f
                   /\ f.pkcs_pki_envelope.encrypted_content_info.encrypted_content
                          = f.enc.ciphertext
            /\ "d" \in DOMAIN f =>
                   /\ "pkcs_pki_envelope" \in DOMAIN f
                   /\ f.d = SHA256(DumpEnvelopedData(f.pkcs_pki_envelope))
            /\ "signature" \in DOMAIN f =>
                   /\ "d" \in DOMAIN f
                   /\ n >= 2
                   /\ SubSeq(attrs, n - 1, n) = MandatoryAttributes(f.d)
                   /\ f.signed_attrs = attrs
                   /\ RSAVerify(builder[b]._primary_signer_key,
                                DumpCMSAttributes(attrs), f.signature)
            /\ (IsMessage(b) /\ f = Idle) =>
                   LET R == builder[b]._recipient
                       ed == LoadEnvelopedData(EncapContent(b))
                       key == RSADecrypt(PrivateKeyOf(R),
                                         ed.recipient_infos[1].encrypted_key).data
                       iv == ed.encrypted_content_info.content_encryption_algorithm.parameters
                       before == [builder[b] EXCEPT
                                     !._cms_attributes = SubSeq(attrs, 1, n - 2)]
                   IN  returned[b].value = finalize(before, key, iv).value

\* a running finalize that has signed, on a builder with a configured attribute
C11_Witness ==
    /\ running["A"].pc = "signed"
    /\ Len(builder["A"]._cms_attributes) = 3

(***************************************************************************)
(* C12: every message carries one signer-info, however many signers were   *)
(* added, of version 1, digest algorithm sha256, signature algorithm       *)
(* sha256_rsa, identified by the issuer and serial number of the primary   *)
(* signer's certificate; the signed-data has version 1 and the one digest  *)
(* algorithm sha256.                                                       *)
(***************************************************************************)
C12_OneSignerInfo ==
    \A b \in Builders :
        IsMessage(b) =>
            LET sd == SignedData(b)
                si == sd.signer_infos[1]
                cert == builder[b]._primary_signer.certificate
            IN  /\ Len(sd.signer_infos) = 1
                /\ si.version = 1
                /\ si.digest_algorithm = "sha256"
                /\ si.signature_algorithm = "sha256_rsa"
                /\ si.sid = [issuer_and_serial_number |->
                                 [issuer |-> cert.issuer,
                                  serial_number |-> cert.serial_number]]
                /\ sd.version = 1
                /\ sd.digest_algorithms = <<"sha256">>

\* a message from a builder with two signers of different certificates
C12_Witness ==
    /\ IsMessage("A")
    /\ Len(builder["A"]._signers) = 2
    /\ builder["A"]._signers[1].certificate # builder["A"]._signers[2].certificate

(***************************************************************************)
(* C18: the signer list is never empty and its last entry is the primary   *)
(* signer; an add_signer call adds one entry and makes its certificate the *)
(* primary signer and its key the signing key; no other call changes the   *)
(* list, the primary signer or the key; and a message is signed with the   *)
(* primary signer's key and names the primary signer alone.                *)
(***************************************************************************)
C18_SignerKeyPairing ==
    [][\A b \in Builders :
          LET old == builder[b]
              new == builder'[b]
              r == returned'[b]
              cert == new._primary_signer.certificate
              sid == [issuer_and_serial_number |->
                         [issuer |-> cert.issuer, serial_number |-> cert.serial_number]]
          IN  /\ Len(old._signers) >= 1
              /\ Len(new._signers) >= 1
              /\ new._signers[Len(new._signers)] = new._primary_signer
              /\ new._primary_signer.sid = sid
              /\ IF r.call = "add_signer" /\ new # old
                 THEN /\ Len(new._signers) = Len(old._signers) + 1
                      /\ SubSeq(new._signers, 1, Len(old._signers)) = old._signers
                      /\ cert = r.args.certificate
                      /\ new._primary_signer_key = r.args.signer_key
                 ELSE /\ new._signers = old._signers
                      /\ new._primary_signer = old._primary_signer
                      /\ new._primary_signer_key = old._primary_signer_key
              /\ (r.call = "finalize" /\ r.raised = "") =>
                     LET si == r.value.content.signer_infos
                     IN  /\ Len(si) = 1
                         /\ si[1].sid = sid
                         /\ RSAVerify(new._primary_signer_key,
                                      DumpCMSAttributes(si[1].signed_attrs),
                                      si[1].signature.contents)]_vars

\* a second add_signer call with another certificate and another key
C18_Witness ==
    /\ returned["A"].call = "add_signer"
    /\ Len(builder["A"]._signers) = 2
    /\ builder["A"]._primary_signer # builder["A"]._signers[1]
    /\ builder["A"]._primary_signer_key # builder["A"]._primary_signer.certificate.public_key

(***************************************************************************)
(* C13: sender_nonce, recipient_nonce and transaction_id called with a     *)
(* value append an attribute of their type holding exactly that value, and *)
(* the message finalize returns carries every attribute the builder held,  *)
(* unchanged.                                                              *)
(***************************************************************************)
ExplicitValue(r) ==
    CASE r.call = "sender_nonce" -> OctetString(r.args.nonce.bytes)
      [] r.call = "recipient_nonce" -> OctetString(r.args.nonce.bytes)
      [] r.call = "transaction_id" -> PrintableString(r.args.trans_id.str)

IsExplicit(r) ==
    \/ r.call \in {"sender_nonce", "recipient_nonce"} /\ r.args.nonce \in ExplicitNonces
    \/ r.call = "transaction_id" /\ r.args.trans_id \in ExplicitTransIds

C13_ExplicitValueKept ==
    [][\A b \in Builders :
          LET old == builder[b]._cms_attributes
              new == builder'[b]._cms_attributes
              r == returned'[b]
          IN  /\ (builder'[b] # builder[b] /\ IsExplicit(r)) =>
                     new = Append(old, CMSAttribute(r.call, <<ExplicitValue(r)>>))
              /\ (r.call = "finalize" /\ r.raised = "") =>
                     LET signed_attrs == r.value.content.signer_infos[1].signed_attrs
                     IN  /\ Len(signed_attrs) = Len(old) + 2
                         /\ SubSeq(signed_attrs, 1, Len(old)) = old]_vars

\* a message that carries a given sender nonce and a given transaction id
C13_Witness ==
    /\ IsMessage("A")
    /\ \E i, j \in DOMAIN SignedAttrs("A") :
           /\ SignedAttrs("A")[i] =
                  CMSAttribute("sender_nonce", <<OctetString(Repeat(0, NonceLen))>>)
           /\ SignedAttrs("A")[j] =
                  CMSAttribute("transaction_id", <<PrintableString(<<97, 98, 99>>)>>)

(***************************************************************************)
(* C14: each of sender_nonce, recipient_nonce and transaction_id, called   *)
(* with its value None or left out, appends an attribute holding a value   *)
(* it generated, 16 random bytes for a nonce and a random string for the   *)
(* transaction id; no attribute holds None.                                *)
(* recipient_nonce generates nothing: left out, the call raises TypeError; *)
(* given None, it appends an attribute that holds None.                    *)
(***************************************************************************)
C14_OmittedValueGenerated ==
    \A b \in Builders :
        LET attrs == builder[b]._cms_attributes
            r == returned[b]
            last == attrs[Len(attrs)]
        IN  /\ \A i \in DOMAIN attrs : attrs[i].values[1] # None
            /\ (r.call \in {"sender_nonce", "recipient_nonce"} /\ r.args.nonce \in Unset) =>
                   /\ r.raised = ""
                   /\ Len(attrs) > 0
                   /\ last.type = r.call
                   /\ \E random \in urandom(NonceLen) :
                          last.values = <<OctetString(random)>>
            /\ (r.call = "transaction_id" /\ r.args.trans_id \in Unset) =>
                   /\ r.raised = ""
                   /\ Len(attrs) > 0
                   /\ last.type = r.call
                   /\ \E random \in uuid4 : last.values = <<PrintableString(random)>>

(***************************************************************************)
(* C16: pki_status with a status other than FAILURE appends the pki_status *)
(* attribute alone, whatever failure info is given; pki_status with        *)
(* FAILURE and failure info f appends the pki_status attribute and then a  *)
(* fail_info attribute of value f; and every fail_info attribute in the    *)
(* list follows a pki_status attribute of value FAILURE.                   *)
(***************************************************************************)
C16_FailInfoOnlyOnFailure ==
    [][\A b \in Builders :
          LET old == builder[b]._cms_attributes
              new == builder'[b]._cms_attributes
              r == returned'[b]
              status_attr == CMSAttribute("pki_status",
                                 <<PrintableString(r.args.status.value)>>)
          IN  /\ (r.call = "pki_status" /\ builder'[b] # builder[b] /\ r.raised = "") =>
                     IF r.args.status = PKIStatus_FAILURE
                     THEN new = old \o <<status_attr,
                                         CMSAttribute("fail_info",
                                             <<PrintableString(r.args.failure_info.value)>>)>>
                     ELSE new = Append(old, status_attr)
              /\ \A i \in AttrsOfType(new, "fail_info") :
                     /\ i > 1
                     /\ new[i - 1] = CMSAttribute("pki_status",
                                         <<PrintableString(PKIStatus_FAILURE.value)>>)]_vars

\* pki_status(SUCCESS) returned although failure info was given
C16_Witness ==
    /\ returned["A"].call = "pki_status"
    /\ returned["A"].raised = ""
    /\ returned["A"].args.status # PKIStatus_FAILURE
    /\ returned["A"].args.failure_info # None

(***************************************************************************)
(* C15 as stated: two builders configured alike that have both returned a  *)
(* message never carry the same content key, IV and ciphertext.            *)
(***************************************************************************)
\* the content key, the IV and the ciphertext in a message for recipient R
Triple(message, R) ==
    LET ed == LoadEnvelopedData(message.content.encap_content_info.content)
    IN  [key |-> RSADecrypt(PrivateKeyOf(R), ed.recipient_infos[1].encrypted_key).data,
         iv |-> ed.encrypted_content_info.content_encryption_algorithm.parameters,
         ciphertext |-> ed.encrypted_content_info.encrypted_content]

ConfiguredAlike(a, b) ==
    /\ builder[a]._encrypt = builder[b]._encrypt
    /\ builder[a]._recipient = builder[b]._recipient
    /\ builder[a]._primary_signer = builder[b]._primary_signer

C15_NeverSameTriple ==
    \A a, b \in Builders :
        (a # b /\ IsMessage(a) /\ IsMessage(b) /\ ConfiguredAlike(a, b)) =>
            Triple(returned[a].value, builder[a]._recipient)
                # Triple(returned[b].value, builder[b]._recipient)

(***************************************************************************)
(* C15 amended: whatever calls were made before on either builder, a       *)
(* finalize call that returns a message uses the 24 bytes and the 8 bytes  *)
(* os.urandom yields in that call as content key and IV, the ciphertext is *)
(* the padded first payload under them, and the builder keeps neither; so  *)
(* two calls give the same key, IV and ciphertext only when os.urandom     *)
(* yields the same bytes in both.                                          *)
(***************************************************************************)
C15_KeyDrawnPerCall ==
    \A b \in Builders :
        /\ DOMAIN builder[b] = {"_signers", "_primary_signer", "_primary_signer_key",
                                "_cms_attributes", "_certificates", "_encrypt",
                                "_recipient"}
        /\ \A random_key \in urandom(KeyLen), random_iv \in urandom(IVLen) :
               LET r == finalize(builder[b], random_key, random_iv)
                   t == Triple(r.value, builder[b]._recipient)
               IN  r.raised = "" =>
                       /\ t.key = random_key /\ Len(t.key) = KeyLen
                       /\ t.iv = random_iv /\ Len(t.iv) = IVLen
                       /\ t.ciphertext =
                              CBCEncrypt(random_key, random_iv,
                                         PKCS7Pad(builder[b]._encrypt[1]))
        /\ IsMessage(b) =>
               LET t == Triple(returned[b].value, builder[b]._recipient)
               IN  t.key \in urandom(KeyLen) /\ t.iv \in urandom(IVLen)
        /\ \A a \in Builders \ {b} :
               (IsMessage(a) /\ IsMessage(b) /\ ConfiguredAlike(a, b)) =>
                   LET ta == Triple(returned[a].value, builder[a]._recipient)
                       tb == Triple(returned[b].value, builder[b]._recipient)
                   IN  ta = tb <=> (ta.key = tb.key /\ ta.iv = tb.iv)

\* two builders configured alike whose messages carry different keys and IVs
C15_Witness ==
    /\ IsMessage("A") /\ IsMessage("B")
    /\ ConfiguredAlike("A", "B")
    /\ Triple(returned["A"].value, builder["A"]._recipient).key
           # Triple(returned["B"].value, builder["B"]._recipient).key
    /\ Triple(returned["A"].value, builder["A"]._recipient).iv
           # Triple(returned["B"].value, builder["B"]._recipient).iv

(***************************************************************************)
(* C17: a call on one builder leaves the other builder as it was, its      *)
(* attribute list, payload queue, recipient, certificate set and signers,  *)
(* and what it last returned; a message finalize returns is the one        *)
(* finalize computes from the builder's own fields and its random draws.   *)
(***************************************************************************)
C17_BuildersIsolated ==
    [][\A b \in Builders :
          (builder'[b] # builder[b] \/ returned'[b] # returned[b]) =>
              /\ \A o \in Builders \ {b} :
                     /\ builder'[o] = builder[o]
                     /\ returned'[o] = returned[o]
                     /\ finalized'[o] = finalized[o]
              /\ (returned'[b].call = "finalize" /\ returned'[b].raised = "") =>
                     \E random_key \in urandom(KeyLen), random_iv \in urandom(IVLen) :
                         LET r == finalize(builder[b], random_key, random_iv)
                         IN  /\ returned'[b].value = r.value
                             /\ builder'[b] = r.self]_vars

\* one builder has returned a message, the other, configured otherwise, has not
C17_Witness ==
    /\ IsMessage("A")
    /\ returned["B"].call = "certificates"
    /\ builder["B"]._certificates # builder["A"]._certificates
    /\ builder["B"]._cms_attributes # builder["A"]._cms_attributes
    /\ builder["B"]._signers # builder["A"]._signers

(***************************************************************************)
(* C19: a certificates call leaves exactly the certificates it was given   *)
(* as the certificate set, an add_recipient call leaves the certificate it *)
(* was given as the recipient, and neither changes any other field; no     *)
(* other call changes the certificate set or the recipient; a message      *)
(* embeds the certificate set as it stood, none if certificates was never  *)
(* called, and is enveloped for the recipient as it stood.                 *)
(***************************************************************************)
C19_ReplaceNotAccumulate ==
    [][\A b \in Builders :
          LET old == builder[b]
              new == builder'[b]
              r == returned'[b]
              called == new # old \/ r # returned[b]
              given == IF r.call = "certificates" THEN r.args.certificates ELSE <<>>
          IN  /\ (called /\ r.call = "certificates") =>
                     new = [old EXCEPT !._certificates =
                               CertificateSet([i \in DOMAIN given |->
                                   parse_certificate(public_bytes(given[i]))])]
              /\ (called /\ r.call = "add_recipient") =>
                     new = [old EXCEPT !._recipient = r.args.certificate]
              /\ (called /\ r.call \notin {"certificates", "add_recipient"}) =>
                     /\ new._certificates = old._certificates
                     /\ new._recipient = old._recipient
              /\ (called /\ r.call = "finalize" /\ r.raised = "") =>
                     LET sd == r.value.content
                         ed == LoadEnvelopedData(sd.encap_content_info.content)
                     IN  /\ sd.certificates = old._certificates
                         /\ Len(ed.recipient_infos) = 1
                         /\ ed.recipient_infos[1].rid =
                                [issuer |-> old._recipient.issuer,
                                 serial_number |-> old._recipient.serial_number]]_vars

\* a message that embeds one certificate and is enveloped for the other
C19_Witness ==
    /\ IsMessage("A")
    /\ SignedData("A").certificates # None
    /\ Len(SignedData("A").certificates.certificate) = 1
    /\ DumpCertificate(SignedData("A").certificates.certificate[1])
           # public_bytes(builder["A"]._recipient)
    /\ Len(SignedAttrs("A")) = 3

(***************************************************************************)
(* C20: every message finalize returns, a repeated finalize included,      *)
(* holds one content_type attribute and one message_digest attribute, and  *)
(* two attributes more than the configuration calls appended.              *)
(* A repeated finalize appends both again to those the call before left.   *)
(***************************************************************************)
C20_MandatoryOnce ==
    \A b \in Builders :
        IsMessage(b) =>
            LET attrs == SignedAttrs(b)
                appended == {i \in DOMAIN attrs :
                                attrs[i].type \notin {"content_type", "message_digest"}}
            IN  /\ Cardinality(AttrsOfType(attrs, "content_type")) = 1
                /\ Cardinality(AttrsOfType(attrs, "message_digest")) = 1
                /\ Len(attrs) = Cardinality(appended) + 2

\* the builder once the inputs finalize needs and self lacks are supplied:
\* encrypt(content) when no payload is queued, add_recipient(certificate)
\* when no recipient is set
Supplied(self, content, certificate) ==
    LET queued == IF self._encrypt = <<>> THEN encrypt(self, content).self ELSE self
    IN  IF queued._recipient = None
        THEN add_recipient(queued, certificate).self
        ELSE queued

(***************************************************************************)
(* C21: a finalize call that fails because no payload is queued or no      *)
(* recipient is set returns no message and leaves the builder as it was    *)
(* before the call, with no content_type and no message_digest attribute   *)
(* appended; and once the missing input is supplied, finalize returns on   *)
(* the builder the call left the message it returns on the builder as it   *)
(* was before the call, with one content_type and one message_digest       *)
(* attribute after the attributes the configuration calls appended.        *)
(***************************************************************************)
C21_FailedFinalizeLeavesBuilder ==
    [][\A b \in Builders :
          (/\ returned'[b] # returned[b]
           /\ returned'[b].call = "finalize"
           /\ (builder[b]._encrypt = <<>> \/ builder[b]._recipient = None))
              => /\ returned'[b].raised # ""
                 /\ returned'[b].value = None
                 /\ builder'[b] = builder[b]
                 /\ finalized'[b] = finalized[b]
                 /\ \A content \in OnePayload, certificate \in OneCertificate,
                        random_key \in OneDraw(KeyLen), random_iv \in OneDraw(IVLen) :
                        LET before == Supplied(builder[b], content, certificate)
                            after == Supplied(builder'[b], content, certificate)
                            retried == finalize(after, random_key, random_iv)
                            attrs == retried.value.content.signer_infos[1].signed_attrs
                        IN  /\ retried.raised = ""
                            /\ retried.value = finalize(before, random_key, random_iv).value
                            /\ Len(attrs) = Len(builder[b]._cms_attributes) + 2
                            /\ SubSeq(attrs, 1, Len(attrs) - 2) = builder[b]._cms_attributes
                            /\ AttrsOfType(attrs, "content_type") = {Len(attrs) - 1}
                            /\ AttrsOfType(attrs, "message_digest") = {Len(attrs)}]_vars

\* finalize failed on a builder that holds a configured attribute and a
\* payload, and no recipient
C21_Witness ==
    /\ returned["A"].call = "finalize"
    /\ returned["A"].raised = "AttributeError"
    /\ builder["A"]._cms_attributes # <<>>
    /\ finalized["A"] = 0

====
